---- MODULE Spec2Model ----
(***************************************************************************)
(* A model of pluto (src/main.rs): a key-value cache whose values are      *)
(* stored zstd-compressed, and a cluster topology that splits TOTAL_SLOTS  *)
(* slots over a sorted list of node addresses.  One ServerState sits       *)
(* behind an RwLock; every connection is served by its own task running    *)
(* handle_client, which reads a command, runs process_command under the    *)
(* read or the write guard, and writes the response back.                  *)
(***************************************************************************)
EXTENDS Integers, Sequences, FiniteSets, TLC

VARIABLES
    cache,       \* ServerState.cache: key -> CacheEntry
    nodes,       \* ClusterState.nodes
    slot_map,    \* ClusterState.slot_map
    slots_file,  \* the content of SLOTS_FILE on disk
    lock,        \* the RwLock around ServerState: who holds which guard
    task,        \* per connection: the position of its handle_client task
    pre,         \* history: per connection, the state its last command ran on
    written,     \* history: per key, the raw bytes of the last successful SET
    members      \* history: the self address and every address ever joined

vars == <<cache, nodes, slot_map, slots_file, lock, task, pre, written, members>>

(***************************************************************************)
(* Constants of the program and bounds of the model.                       *)
(***************************************************************************)
TOTAL_SLOTS == 16384

\* Values are byte strings of at most MaxLen bytes.
MaxLen == 1

\* The node list grows to at most MaxNodes addresses.
MaxNodes == 5

Bytes == {0, 255}

Keys == {"k1", "missing"}

Conns == {"c1"}

\* Addresses are strings, modelled as sequences of character codes:
\* "10" is the process's own bind address; the others sort around it
\* ("" < "1" < "10" < "11" < "2" < "20" < "3"); no address is rejected,
\* the empty string included.
SelfAddr == <<49, 48>>

Addrs == {<<49>>, SelfAddr, <<50>>}

ClusterAddrs ==
    {<<>>, <<49>>, SelfAddr, <<49, 49>>, <<50>>, <<50, 48>>, <<51>>}

RECURSIVE SeqsUpTo(_, _)
SeqsUpTo(S, n) ==
    IF n = 0 THEN {<<>>}
    ELSE LET shorter == SeqsUpTo(S, n - 1)
         IN  shorter \cup {Append(s, b) : s \in {t \in shorter : Len(t) = n - 1}, b \in S}

Values == SeqsUpTo(Bytes, MaxLen)

\* The key lists a DEL is tried with: empty, single, mixed, repeated.
KeyLists == {<<>>, <<"k1">>, <<"missing">>, <<"k1", "missing">>, <<"k1", "k1">>}

\* The history of a key: never written (or deleted since), or the bytes written.
NoValue == [set |-> FALSE]

Written(v) == [set |-> TRUE, value |-> v]

\* SLOTS_FILE before its first write.
NoFile == <<>>

(***************************************************************************)
(* Strings: Rust orders String byte by byte (lexicographically).           *)
(***************************************************************************)
RECURSIVE StrLess(_, _)
StrLess(a, b) ==
    IF b = <<>> THEN FALSE
    ELSE IF a = <<>> THEN TRUE
    ELSE IF Head(a) # Head(b) THEN Head(a) < Head(b)
    ELSE StrLess(Tail(a), Tail(b))

StrLeq(a, b) == a = b \/ StrLess(a, b)

\* Vec::sort: a stable sort by Ord; here an insertion sort.
RECURSIVE insert_sorted(_, _)
insert_sorted(s, x) ==
    IF s = <<>> THEN <<x>>
    ELSE IF StrLess(x, Head(s)) THEN <<x>> \o s
    ELSE <<Head(s)>> \o insert_sorted(Tail(s), x)

RECURSIVE sort(_)
sort(s) ==
    IF s = <<>> THEN <<>>
    ELSE insert_sorted(sort(SubSeq(s, 1, Len(s) - 1)), s[Len(s)])

contains(s, x) == \E i \in 1..Len(s) : s[i] = x

(***************************************************************************)
(* ClusterState                                                            *)
(***************************************************************************)
NodeSlots(addr, start, end) == [address |-> addr, slot_range |-> <<start, end>>]

\* A loop whose ranges end one slot late (end = slots + count).
RECURSIVE rebalance_loop_late_end(_, _, _, _, _, _)
rebalance_loop_late_end(ns, i, base, extra, slots, acc) ==
    IF i >= Len(ns) THEN [slot_map |-> acc, slots |-> slots]
    ELSE LET count == IF i < extra THEN base + 1 ELSE base
             start == slots
             end   == slots + count
         IN  rebalance_loop_late_end(ns, i + 1, base, extra, slots + count,
                                     Append(acc, NodeSlots(ns[i + 1], start, end)))

\* A loop that hands the extra slot to one node too many (i <= extra).
RECURSIVE rebalance_loop_extra_off_by_one(_, _, _, _, _, _)
rebalance_loop_extra_off_by_one(ns, i, base, extra, slots, acc) ==
    IF i >= Len(ns) THEN [slot_map |-> acc, slots |-> slots]
    ELSE LET count == IF i <= extra THEN base + 1 ELSE base
             start == slots
             end   == slots + count - 1
         IN  rebalance_loop_extra_off_by_one(ns, i + 1, base, extra, slots + count,
                                             Append(acc, NodeSlots(ns[i + 1], start, end)))

\* The loop of rebalance_slots over nodes.iter().enumerate(): i is the
\* 0-based index, slots the running total, acc the slot_map pushed so far.
RECURSIVE rebalance_loop(_, _, _, _, _, _)
rebalance_loop(ns, i, base, extra, slots, acc) ==
    IF i >= Len(ns) THEN [slot_map |-> acc, slots |-> slots]
    ELSE LET count == IF i < extra THEN base + 1 ELSE base
             start == slots
             end   == slots + count - 1
         IN  rebalance_loop(ns, i + 1, base, extra, slots + count,
                            Append(acc, NodeSlots(ns[i + 1], start, end)))

\* An allocation whose base count is rounded up.
allocate_round_up(ns, total) ==
    LET n == Len(ns)
    IN  IF n = 0 THEN <<>>
        ELSE rebalance_loop(ns, 0, (total + n - 1) \div n, total % n, 0, <<>>).slot_map

\* rebalance_slots over a slot space of `total` slots.
allocate(ns, total) ==
    LET n == Len(ns)
    IN  IF n = 0 THEN <<>>
        ELSE rebalance_loop(ns, 0, total \div n, total % n, 0, <<>>).slot_map

rebalance_slots(ns) == allocate(ns, TOTAL_SLOTS)

\* serde_json::to_string_pretty of the slot_map: the JSON text as its tokens.
RECURSIVE to_string_pretty(_)
to_string_pretty(sm) ==
    IF sm = <<>> THEN <<>>
    ELSE <<"{", "address", sm[1].address, "slot_range",
           sm[1].slot_range[1], sm[1].slot_range[2], "}">>
         \o to_string_pretty(Tail(sm))

get_slots_json(sm) == <<"[">> \o to_string_pretty(sm) \o <<"]">>

\* fs::write(SLOTS_FILE, ...) with its error dropped (let _ =).
write_slots_file(file, sm, io_ok) ==
    IF io_ok THEN get_slots_json(sm) ELSE file

\* An add_node without the contains check: a repeated address is pushed again.
add_node_dup(ns, sm, file, addr, io_ok) ==
    LET ns2 == sort(Append(ns, addr))
        sm2 == rebalance_slots(ns2)
    IN  [nodes |-> ns2, slot_map |-> sm2,
         slots_file |-> write_slots_file(file, sm2, io_ok)]

\* An add_node that pushes the address and does not sort.
add_node_unsorted(ns, sm, file, addr, io_ok) ==
    IF ~contains(ns, addr)
    THEN LET ns2 == Append(ns, addr)
             sm2 == rebalance_slots(ns2)
         IN  [nodes |-> ns2, slot_map |-> sm2,
              slots_file |-> write_slots_file(file, sm2, io_ok)]
    ELSE [nodes |-> ns, slot_map |-> sm, slots_file |-> file]

\* An add_node that writes the manifest before it rebalances.
add_node_write_first(ns, sm, file, addr, io_ok) ==
    IF ~contains(ns, addr)
    THEN LET ns2 == sort(Append(ns, addr))
             sm2 == rebalance_slots(ns2)
         IN  [nodes |-> ns2, slot_map |-> sm2,
              slots_file |-> write_slots_file(file, sm, io_ok)]
    ELSE [nodes |-> ns, slot_map |-> sm, slots_file |-> file]

\* An add_node that starts the node list over with the new address.
add_node_replace(ns, sm, file, addr, io_ok) ==
    IF ~contains(ns, addr)
    THEN LET ns2 == sort(<<addr>>)
             sm2 == rebalance_slots(ns2)
         IN  [nodes |-> ns2, slot_map |-> sm2,
              slots_file |-> write_slots_file(file, sm2, io_ok)]
    ELSE [nodes |-> ns, slot_map |-> sm, slots_file |-> file]

\* add_node: the topology and the manifest after add_node(addr).
add_node(ns, sm, file, addr, io_ok) ==
    IF ~contains(ns, addr)
    THEN LET ns2 == sort(Append(ns, addr))
             sm2 == rebalance_slots(ns2)
         IN  [nodes |-> ns2, slot_map |-> sm2,
              slots_file |-> write_slots_file(file, sm2, io_ok)]
    ELSE [nodes |-> ns, slot_map |-> sm, slots_file |-> file]

\* A constructor that leaves the slot_map empty.
ClusterState_new_no_rebalance(self_addr) ==
    [nodes |-> <<self_addr>>, slot_map |-> <<>>]

ClusterState_new(self_addr) ==
    LET ns == <<self_addr>>
    IN  [nodes |-> ns, slot_map |-> rebalance_slots(ns)]

(***************************************************************************)
(* Results, errors and responses                                           *)
(***************************************************************************)
Ok(v) == [ok |-> TRUE, val |-> v]

Err(e) == [ok |-> FALSE, err |-> e]

Compression(msg) == [kind |-> "Compression", arg |-> msg]

KeyNotFound(key) == [kind |-> "KeyNotFound", arg |-> key]

Success == [tag |-> "Success"]

Error(msg) == [tag |-> "Error", msg |-> msg]

Data(bytes) == [tag |-> "Data", data |-> bytes]

Exists(flag) == [tag |-> "Exists", flag |-> flag]

Slots(text) == [tag |-> "Slots", text |-> text]

\* The #[error("...")] texts of ServerError: a prefix and the payload.
to_string(e) ==
    IF e.kind = "Compression" THEN <<"Compression error: ", e.arg>>
    ELSE <<"Key not found: ", e.arg>>

(***************************************************************************)
(* The codec.  zstd is a library: a frame is modelled as the magic number, *)
(* the content size and the content as one raw block.                      *)
(***************************************************************************)
ZSTD_MAGIC == <<40, 181, 47, 253>>

zstd_encode_all(data) == ZSTD_MAGIC \o <<Len(data)>> \o data

zstd_decode_all(frame) ==
    IF /\ Len(frame) >= 5
       /\ SubSeq(frame, 1, 4) = ZSTD_MAGIC
       /\ frame[5] = Len(frame) - 5
    THEN Ok(SubSeq(frame, 6, Len(frame)))
    ELSE [ok |-> FALSE, err |-> "Unknown frame descriptor"]

\* zstd_ok: whether the library call succeeds.
compress_data(data, zstd_ok) ==
    IF zstd_ok THEN Ok(zstd_encode_all(data))
    ELSE Err(Compression("zstd"))

decompress_data(data) ==
    LET r == zstd_decode_all(data)
    IN  IF r.ok THEN r ELSE Err(Compression(r.err))

CacheEntry(bytes) == [compressed_data |-> bytes]

(***************************************************************************)
(* HashMap operations on the cache                                         *)
(***************************************************************************)
contains_key(c, key) == key \in DOMAIN c

insert(c, key, entry) ==
    [k \in DOMAIN c \cup {key} |-> IF k = key THEN entry ELSE c[k]]

remove(c, key) == [k \in DOMAIN c \ {key} |-> c[k]]

(***************************************************************************)
(* process_command, one operator per arm of the match                      *)
(***************************************************************************)
\* A SET that drops the old entry before it knows the compression succeeded.
SET_remove_first(c, key, value, zstd_ok) ==
    LET compressed == compress_data(value, zstd_ok)
    IN  IF ~compressed.ok THEN [cache |-> remove(c, key), res |-> compressed]
        ELSE [cache |-> insert(c, key, CacheEntry(compressed.val)),
              res |-> Ok(Success)]

SET(c, key, value, zstd_ok) ==
    LET compressed == compress_data(value, zstd_ok)
    IN  IF ~compressed.ok THEN [cache |-> c, res |-> compressed]
        ELSE [cache |-> insert(c, key, CacheEntry(compressed.val)),
              res |-> Ok(Success)]

\* A GET that returns the stored bytes as they are, without decompressing.
GET_raw(c, key) ==
    IF contains_key(c, key)
    THEN Ok(Data(c[key].compressed_data))
    ELSE Err(KeyNotFound(key))

\* A GET whose error carries a fixed text instead of the key.
GET_fixed_message(c, key) ==
    IF contains_key(c, key)
    THEN LET data == decompress_data(c[key].compressed_data)
         IN  IF data.ok THEN Ok(Data(data.val)) ELSE data
    ELSE Err(KeyNotFound("None of the keys found"))

GET(c, key) ==
    IF contains_key(c, key)
    THEN LET data == decompress_data(c[key].compressed_data)
         IN  IF data.ok THEN Ok(Data(data.val)) ELSE data
    ELSE Err(KeyNotFound(key))

\* A DEL loop whose flag follows the last key only (found = remove(..).is_some()).
RECURSIVE DEL_loop_last_key(_, _, _, _)
DEL_loop_last_key(c, keys, i, found) ==
    IF i > Len(keys) THEN [cache |-> c, found |-> found]
    ELSE DEL_loop_last_key(remove(c, keys[i]), keys, i + 1, contains_key(c, keys[i]))

\* A DEL loop that stops at the first key it removes.
RECURSIVE DEL_loop_first_hit(_, _, _, _)
DEL_loop_first_hit(c, keys, i, found) ==
    IF i > Len(keys) THEN [cache |-> c, found |-> found]
    ELSE IF contains_key(c, keys[i])
         THEN [cache |-> remove(c, keys[i]), found |-> TRUE]
         ELSE DEL_loop_first_hit(c, keys, i + 1, found)

\* The loop of DEL over keys, from position i (1-based) on.
RECURSIVE DEL_loop(_, _, _, _)
DEL_loop(c, keys, i, found) ==
    IF i > Len(keys) THEN [cache |-> c, found |-> found]
    ELSE IF contains_key(c, keys[i])
         THEN DEL_loop(remove(c, keys[i]), keys, i + 1, TRUE)
         ELSE DEL_loop(c, keys, i + 1, found)

DEL(c, keys) ==
    LET r == DEL_loop(c, keys, 1, FALSE)
    IN  [cache |-> r.cache,
         res |-> IF r.found THEN Ok(Success)
                 ELSE Err(KeyNotFound("None of the keys found"))]

\* An EXISTS that asks whether the cache holds anything at all.
EXISTS_any(c, key) == Ok(Exists(DOMAIN c # {}))

EXISTS(c, key) == Ok(Exists(contains_key(c, key)))

CLUSTER_JOIN(ns, sm, file, address, io_ok) ==
    LET r == add_node(ns, sm, file, address, io_ok)
    IN  [nodes |-> r.nodes, slot_map |-> r.slot_map,
         slots_file |-> r.slots_file, res |-> Ok(Success)]

CLUSTER_SLOTS(sm) == Ok(Slots(get_slots_json(sm)))

\* handle_client's mapping of a result to the response it sends.
respond(res) == IF res.ok THEN res.val ELSE Error(to_string(res.err))

\* handle_client's response to bytes that do not parse as a Command.
invalid_command(e) == Error(<<"Invalid command: ", e>>)

(***************************************************************************)
(* Commands                                                                *)
(***************************************************************************)
Invalid == [op |-> "INVALID"]

CacheCommands ==
    {[op |-> "SET", key |-> k, value |-> v] : k \in Keys, v \in Values}
    \cup {[op |-> "GET", key |-> k] : k \in Keys}
    \cup {[op |-> "DEL", keys |-> ks] : ks \in KeyLists}
    \cup {[op |-> "EXISTS", key |-> k] : k \in Keys}

ClusterCommandsOver(addrs) ==
    {[op |-> "CLUSTER_JOIN", address |-> a] : a \in addrs}
    \cup {[op |-> "CLUSTER_SLOTS"]}

Commands == CacheCommands \cup ClusterCommandsOver(Addrs)

ClusterCommands == ClusterCommandsOver(ClusterAddrs)

\* A CLUSTER_JOIN arm that asks for the read guard.
takes_write_not_join(cmd) == cmd.op \in {"SET", "DEL"}

takes_write(cmd) == cmd.op \in {"SET", "DEL", "CLUSTER_JOIN"}

\* The bound on the node list: a join of a new address needs room for it.
within_bounds(cmd) ==
    cmd.op = "CLUSTER_JOIN" =>
        contains(nodes, cmd.address) \/ Len(nodes) < MaxNodes

(***************************************************************************)
(* The RwLock                                                              *)
(***************************************************************************)
NoWriter == "nobody"

can_read_over_writer(l) == TRUE

can_read(l) == l.writer = NoWriter

can_write_over_readers(l) == l.writer = NoWriter

can_write(l) == l.writer = NoWriter /\ l.readers = {}

acquire(l, c, cmd) ==
    IF takes_write(cmd) THEN [l EXCEPT !.writer = c]
    ELSE [l EXCEPT !.readers = @ \cup {c}]

\* A guard that is not dropped when the writer returns.
release_keeps_writer(l, c) ==
    [writer |-> l.writer, readers |-> l.readers \ {c}]

release(l, c) ==
    [writer |-> IF l.writer = c THEN NoWriter ELSE l.writer,
     readers |-> l.readers \ {c}]

(***************************************************************************)
(* The state machine                                                       *)
(***************************************************************************)
NoPre == [taken |-> FALSE]

Snapshot ==
    [taken |-> TRUE, cache |-> cache, nodes |-> nodes, slot_map |-> slot_map,
     slots_file |-> slots_file]

Init ==
    /\ cache = <<>>
    /\ nodes = ClusterState_new(SelfAddr).nodes
    /\ slot_map = ClusterState_new(SelfAddr).slot_map
    /\ slots_file = NoFile
    /\ lock = [writer |-> NoWriter, readers |-> {}]
    /\ task = [c \in Conns |-> [pc |-> "closed"]]
    /\ pre = [c \in Conns |-> NoPre]
    /\ written = [k \in Keys |-> NoValue]
    /\ members = {SelfAddr}

\* main: accept a connection and spawn handle_client for it.
Accept(c) ==
    /\ task[c].pc = "closed"
    /\ task' = [task EXCEPT ![c] = [pc |-> "read"]]
    /\ UNCHANGED <<cache, nodes, slot_map, slots_file, lock, pre, written, members>>

\* handle_client: read_buf returns Ok(0) or Err and the loop breaks.
Disconnect(c) ==
    /\ task[c].pc = "read"
    /\ task' = [task EXCEPT ![c] = [pc |-> "closed"]]
    /\ UNCHANGED <<cache, nodes, slot_map, slots_file, lock, pre, written, members>>

\* handle_client: the bytes read do not parse as a Command; the response is
\* an Error and process_command is not called.
ReceiveInvalid(c) ==
    /\ task[c].pc = "read"
    /\ task' = [task EXCEPT ![c] =
                   [pc |-> "respond", cmd |-> Invalid,
                    res |-> [ok |-> FALSE, err |-> [kind |-> "Serialization", arg |-> "serde"]],
                    resp |-> invalid_command("serde")]]
    /\ UNCHANGED <<cache, nodes, slot_map, slots_file, lock, pre, written, members>>

\* handle_client reads a Command of cmds and process_command takes the guard
\* its arm asks for: state.write() or state.read().
Receive(c, cmds) ==
    /\ task[c].pc = "read"
    /\ \E cmd \in cmds :
          /\ within_bounds(cmd)
          /\ IF takes_write(cmd) THEN can_write(lock) ELSE can_read(lock)
          /\ lock' = acquire(lock, c, cmd)
          /\ task' = [task EXCEPT ![c] = [pc |-> "locked", cmd |-> cmd]]
    /\ UNCHANGED <<cache, nodes, slot_map, slots_file, pre, written, members>>

process_command_owned(cmd, zstd_ok, io_ok) ==
    LET same == [cache |-> cache, nodes |-> nodes, slot_map |-> slot_map,
                 slots_file |-> slots_file]
    IN  CASE cmd.op = "SET" ->
               LET r == SET(cache, cmd.key, cmd.value, zstd_ok)
               IN  [same EXCEPT !.cache = r.cache] @@ [res |-> r.res]
          [] cmd.op = "GET" ->
               same @@ [res |-> IF Len(nodes) > 1 THEN Err(KeyNotFound(cmd.key))
                                ELSE GET(cache, cmd.key)]
          [] cmd.op = "DEL" ->
               LET r == DEL(cache, cmd.keys)
               IN  [same EXCEPT !.cache = r.cache] @@ [res |-> r.res]
          [] cmd.op = "EXISTS" -> same @@ [res |-> EXISTS(cache, cmd.key)]
          [] cmd.op = "CLUSTER_JOIN" ->
               CLUSTER_JOIN(nodes, slot_map, slots_file, cmd.address, io_ok)
               @@ [cache |-> cache]
          [] cmd.op = "CLUSTER_SLOTS" -> same @@ [res |-> CLUSTER_SLOTS(slot_map)]

\* The state and the result of process_command(cmd) run on the current state.
process_command(cmd, zstd_ok, io_ok) ==
    LET same == [cache |-> cache, nodes |-> nodes, slot_map |-> slot_map,
                 slots_file |-> slots_file]
    IN  CASE cmd.op = "SET" ->
               LET r == SET(cache, cmd.key, cmd.value, zstd_ok)
               IN  [same EXCEPT !.cache = r.cache] @@ [res |-> r.res]
          [] cmd.op = "GET" -> same @@ [res |-> GET(cache, cmd.key)]
          [] cmd.op = "DEL" ->
               LET r == DEL(cache, cmd.keys)
               IN  [same EXCEPT !.cache = r.cache] @@ [res |-> r.res]
          [] cmd.op = "EXISTS" -> same @@ [res |-> EXISTS(cache, cmd.key)]
          [] cmd.op = "CLUSTER_JOIN" ->
               CLUSTER_JOIN(nodes, slot_map, slots_file, cmd.address, io_ok)
               @@ [cache |-> cache]
          [] cmd.op = "CLUSTER_SLOTS" -> same @@ [res |-> CLUSTER_SLOTS(slot_map)]

\* The state and the result of process_command(cmd) run on the state st.
process_command_on(st, cmd, zstd_ok, io_ok) ==
    CASE cmd.op = "SET" ->
           LET r == SET(st.cache, cmd.key, cmd.value, zstd_ok)
           IN  [st EXCEPT !.cache = r.cache] @@ [res |-> r.res]
      [] cmd.op = "GET" -> st @@ [res |-> GET(st.cache, cmd.key)]
      [] cmd.op = "DEL" ->
           LET r == DEL(st.cache, cmd.keys)
           IN  [st EXCEPT !.cache = r.cache] @@ [res |-> r.res]
      [] cmd.op = "EXISTS" -> st @@ [res |-> EXISTS(st.cache, cmd.key)]
      [] cmd.op = "CLUSTER_JOIN" ->
           CLUSTER_JOIN(st.nodes, st.slot_map, st.slots_file, cmd.address, io_ok)
           @@ [cache |-> st.cache]
      [] cmd.op = "CLUSTER_SLOTS" -> st @@ [res |-> CLUSTER_SLOTS(st.slot_map)]

\* History of the writes: a successful SET records its bytes; a DEL ends the
\* record of every key of its list.
written_after(cmd, res) ==
    CASE cmd.op = "SET" /\ res.ok -> [written EXCEPT ![cmd.key] = Written(cmd.value)]
      [] cmd.op = "DEL" ->
           [k \in Keys |-> IF contains(cmd.keys, k) THEN NoValue ELSE written[k]]
      [] OTHER -> written

members_after(cmd) ==
    IF cmd.op = "CLUSTER_JOIN" THEN members \cup {cmd.address} ELSE members

\* process_command runs its arm under the guard and drops the guard when it
\* returns; handle_client maps the result to the response.
Run(c) ==
    /\ task[c].pc = "locked"
    /\ \E zstd_ok \in BOOLEAN, io_ok \in BOOLEAN :
          LET cmd == task[c].cmd
              r   == process_command(cmd, zstd_ok, io_ok)
          IN  /\ cache' = r.cache
              /\ nodes' = r.nodes
              /\ slot_map' = r.slot_map
              /\ slots_file' = r.slots_file
              /\ written' = written_after(cmd, r.res)
              /\ members' = members_after(cmd)
              /\ task' = [task EXCEPT ![c] =
                             [pc |-> "respond", cmd |-> cmd, res |-> r.res,
                              resp |-> respond(r.res)]]
    /\ pre' = [pre EXCEPT ![c] = Snapshot]
    /\ lock' = release(lock, c)

\* A handle_client that leaves its loop after an Error response.
Respond_break_on_error(c) ==
    /\ task[c].pc = "respond"
    /\ \E wrote \in BOOLEAN :
          task' = [task EXCEPT ![c] =
                      [pc |-> IF wrote /\ task[c].resp.tag # "Error"
                              THEN "read" ELSE "closed"]]
    /\ pre' = [pre EXCEPT ![c] = NoPre]
    /\ UNCHANGED <<cache, nodes, slot_map, slots_file, lock, written, members>>

\* handle_client: write_all of the response; the loop goes on when it
\* succeeds and breaks when it fails.
Respond(c) ==
    /\ task[c].pc = "respond"
    /\ \E wrote \in BOOLEAN :
          task' = [task EXCEPT ![c] = [pc |-> IF wrote THEN "read" ELSE "closed"]]
    /\ pre' = [pre EXCEPT ![c] = NoPre]
    /\ UNCHANGED <<cache, nodes, slot_map, slots_file, lock, written, members>>

Step(c, cmds) ==
    \/ Accept(c)
    \/ Disconnect(c)
    \/ ReceiveInvalid(c)
    \/ Receive(c, cmds)
    \/ Run(c)
    \/ Respond(c)

\* One connection sending any command.
Next == \E c \in Conns : Step(c, Commands)

Spec == Init /\ [][Next]_vars

\* One connection sending cluster commands over a larger set of addresses.
NextCluster == \E c \in Conns : Step(c, ClusterCommands)

SpecCluster == Init /\ [][NextCluster]_vars

TypeOK ==
    /\ DOMAIN cache \subseteq Keys
    /\ \A k \in DOMAIN cache : DOMAIN cache[k] = {"compressed_data"}
    /\ lock.writer \in Conns \cup {NoWriter}
    /\ lock.readers \subseteq Conns
    /\ \A c \in Conns : task[c].pc \in {"closed", "read", "locked", "respond"}

(***************************************************************************)
(* Concurrent connections                                                  *)
(*                                                                         *)
(* Two connection tasks share the state.  A task that has read a command   *)
(* waits for its guard, and the arms that change the state in several      *)
(* steps (the loop of DEL, and add_node with its rebalance) take those     *)
(* steps one at a time while they hold the write guard.                    *)
(***************************************************************************)
Clients == {"c1", "c2"}

ConcAddrs == {<<49>>}

ConcCommands ==
    {[op |-> "SET", key |-> "k1", value |-> <<0>>],
     [op |-> "SET", key |-> "k1", value |-> <<255>>],
     [op |-> "SET", key |-> "missing", value |-> <<255>>],
     [op |-> "GET", key |-> "k1"],
     [op |-> "EXISTS", key |-> "missing"],
     [op |-> "DEL", keys |-> <<"k1", "missing">>]}
    \cup ClusterCommandsOver(ConcAddrs)

InitConc ==
    /\ cache = <<>>
    /\ nodes = ClusterState_new(SelfAddr).nodes
    /\ slot_map = ClusterState_new(SelfAddr).slot_map
    /\ slots_file = NoFile
    /\ lock = [writer |-> NoWriter, readers |-> {}]
    /\ task = [c \in Clients |-> [pc |-> "closed"]]
    /\ pre = [c \in Clients |-> NoPre]
    /\ written = [k \in Keys |-> NoValue]
    /\ members = {SelfAddr}

\* handle_client reads a Command of cmds and calls process_command, whose arm
\* asks for its guard.
Enqueue(c, cmds) ==
    /\ task[c].pc = "read"
    /\ \E cmd \in cmds :
          /\ within_bounds(cmd)
          /\ task' = [task EXCEPT ![c] = [pc |-> "wait", cmd |-> cmd]]
    /\ UNCHANGED <<cache, nodes, slot_map, slots_file, lock, pre, written, members>>

\* The locals of an arm when it has just taken its guard.
locals == [at |-> "start", i |-> 0, found |-> FALSE, slots |-> 0]

\* state.write() or state.read() returns the guard.
Acquire(c) ==
    /\ task[c].pc = "wait"
    /\ IF takes_write(task[c].cmd) THEN can_write(lock) ELSE can_read(lock)
    /\ lock' = acquire(lock, c, task[c].cmd)
    /\ task' = [task EXCEPT ![c] =
                   [pc |-> "locked", cmd |-> task[c].cmd, loc |-> locals]]
    /\ pre' = [pre EXCEPT ![c] = Snapshot]
    /\ UNCHANGED <<cache, nodes, slot_map, slots_file, written, members>>

\* The arm returns: the guard is dropped and handle_client maps the result.
return(c, res) ==
    /\ task' = [task EXCEPT ![c] =
                   [pc |-> "respond", cmd |-> task[c].cmd, res |-> res,
                    resp |-> respond(res)]]
    /\ written' = written_after(task[c].cmd, res)
    /\ members' = members_after(task[c].cmd)
    /\ lock' = release(lock, c)

\* SET, GET, EXISTS and CLUSTER_SLOTS use the state once.
RunOnce(c) ==
    /\ task[c].pc = "locked"
    /\ task[c].cmd.op \in {"SET", "GET", "EXISTS", "CLUSTER_SLOTS"}
    /\ Run(c)

\* DEL: one iteration of the loop over the keys.
DelKey(c) ==
    /\ task[c].pc = "locked"
    /\ task[c].cmd.op = "DEL"
    /\ task[c].loc.i < Len(task[c].cmd.keys)
    /\ LET key == task[c].cmd.keys[task[c].loc.i + 1]
           hit == contains_key(cache, key)
       IN  /\ cache' = remove(cache, key)
           /\ task' = [task EXCEPT ![c].loc.i = @ + 1,
                                   ![c].loc.found = @ \/ hit]
    /\ UNCHANGED <<nodes, slot_map, slots_file, lock, pre, written, members>>

\* DEL: the loop is over and the arm returns.
DelReturn(c) ==
    /\ task[c].pc = "locked"
    /\ task[c].cmd.op = "DEL"
    /\ task[c].loc.i = Len(task[c].cmd.keys)
    /\ return(c, IF task[c].loc.found THEN Ok(Success)
                 ELSE Err(KeyNotFound("None of the keys found")))
    /\ UNCHANGED <<cache, nodes, slot_map, slots_file, pre>>

\* CLUSTER_JOIN of a node already in the list: add_node does nothing.
JoinKnown(c) ==
    /\ task[c].pc = "locked"
    /\ task[c].cmd.op = "CLUSTER_JOIN"
    /\ task[c].loc.at = "start"
    /\ contains(nodes, task[c].cmd.address)
    /\ return(c, Ok(Success))
    /\ UNCHANGED <<cache, nodes, slot_map, slots_file, pre>>

\* add_node: push and sort.
JoinPush(c) ==
    /\ task[c].pc = "locked"
    /\ task[c].cmd.op = "CLUSTER_JOIN"
    /\ task[c].loc.at = "start"
    /\ ~contains(nodes, task[c].cmd.address)
    /\ nodes' = sort(Append(nodes, task[c].cmd.address))
    /\ task' = [task EXCEPT ![c].loc.at = "clear"]
    /\ UNCHANGED <<cache, slot_map, slots_file, lock, pre, written, members>>

\* rebalance_slots: slot_map.clear().
JoinClear(c) ==
    /\ task[c].pc = "locked"
    /\ task[c].cmd.op = "CLUSTER_JOIN"
    /\ task[c].loc.at = "clear"
    /\ slot_map' = <<>>
    /\ task' = [task EXCEPT ![c].loc.at = "loop"]
    /\ UNCHANGED <<cache, nodes, slots_file, lock, pre, written, members>>

\* rebalance_slots: one iteration of the loop over the nodes.
JoinAssign(c) ==
    /\ task[c].pc = "locked"
    /\ task[c].cmd.op = "CLUSTER_JOIN"
    /\ task[c].loc.at = "loop"
    /\ task[c].loc.i < Len(nodes)
    /\ LET n     == Len(nodes)
           base  == TOTAL_SLOTS \div n
           extra == TOTAL_SLOTS % n
           i     == task[c].loc.i
           slots == task[c].loc.slots
           count == IF i < extra THEN base + 1 ELSE base
           start == slots
           end   == slots + count - 1
       IN  /\ slot_map' = Append(slot_map, NodeSlots(nodes[i + 1], start, end))
           /\ task' = [task EXCEPT ![c].loc.i = i + 1,
                                   ![c].loc.slots = slots + count]
    /\ UNCHANGED <<cache, nodes, slots_file, lock, pre, written, members>>

\* add_node: write_slots_file after the loop, and the arm returns.
JoinWrite(c) ==
    /\ task[c].pc = "locked"
    /\ task[c].cmd.op = "CLUSTER_JOIN"
    /\ task[c].loc.at = "loop"
    /\ task[c].loc.i = Len(nodes)
    /\ \E io_ok \in BOOLEAN :
          slots_file' = write_slots_file(slots_file, slot_map, io_ok)
    /\ return(c, Ok(Success))
    /\ UNCHANGED <<cache, nodes, slot_map, pre>>

StepConc(c, cmds) ==
    \/ Accept(c)
    \/ Disconnect(c)
    \/ Enqueue(c, cmds)
    \/ Acquire(c)
    \/ RunOnce(c)
    \/ DelKey(c)
    \/ DelReturn(c)
    \/ JoinKnown(c)
    \/ JoinPush(c)
    \/ JoinClear(c)
    \/ JoinAssign(c)
    \/ JoinWrite(c)
    \/ Respond(c)

NextConc == \E c \in Clients : StepConc(c, ConcCommands)

SpecConc == InitConc /\ [][NextConc]_vars

\* The steps of an arm under its guard, up to its return.
Proceed(c) ==
    \/ RunOnce(c)
    \/ DelKey(c)
    \/ DelReturn(c)
    \/ JoinKnown(c)
    \/ JoinPush(c)
    \/ JoinClear(c)
    \/ JoinAssign(c)
    \/ JoinWrite(c)

FairCommands ==
    {[op |-> "SET", key |-> "k1", value |-> <<0>>],
     [op |-> "GET", key |-> "k1"],
     [op |-> "DEL", keys |-> <<"k1", "missing">>],
     [op |-> "CLUSTER_JOIN", address |-> <<49>>]}

NextFair == \E c \in Clients : StepConc(c, FairCommands)

\* No arm awaits under its guard, so a task that holds a guard runs on to its
\* return whenever its thread is scheduled; a task blocked in write() or
\* read() is granted the guard when the lock is released to it.
Fairness ==
    \A c \in Clients : WF_vars(Proceed(c)) /\ SF_vars(Acquire(c))

SpecFair == InitConc /\ [][NextFair]_vars /\ Fairness

\* Two connections sending cluster commands.
ConcClusterCommands == ClusterCommandsOver({<<49>>, <<50>>, <<51>>})

\* handle_client for a connection that sends no DEL.
StepConcCluster(c, cmds) ==
    \/ Accept(c)
    \/ Disconnect(c)
    \/ Enqueue(c, cmds)
    \/ Acquire(c)
    \/ RunOnce(c)
    \/ JoinKnown(c)
    \/ JoinPush(c)
    \/ JoinClear(c)
    \/ JoinAssign(c)
    \/ JoinWrite(c)
    \/ Respond(c)

NextConcCluster == \E c \in Clients : StepConcCluster(c, ConcClusterCommands)

SpecConcCluster == InitConc /\ [][NextConcCluster]_vars

\* The cluster state over a slot space of SmallSlots slots, so that node
\* lists longer than the slot space are within reach: add_node calls from
\* the state ClusterState::new leaves.
SmallSlots == 3

InitSmallSlots ==
    /\ cache = <<>>
    /\ nodes = <<SelfAddr>>
    /\ slot_map = allocate(<<SelfAddr>>, SmallSlots)
    /\ slots_file = NoFile
    /\ lock = [writer |-> NoWriter, readers |-> {}]
    /\ task = [c \in Conns |-> [pc |-> "closed"]]
    /\ pre = [c \in Conns |-> NoPre]
    /\ written = [k \in Keys |-> NoValue]
    /\ members = {SelfAddr}

AddNodeSmallSlots(addr) ==
    /\ contains(nodes, addr) \/ Len(nodes) < MaxNodes
    /\ IF ~contains(nodes, addr)
       THEN /\ nodes' = sort(Append(nodes, addr))
            /\ slot_map' = allocate(nodes', SmallSlots)
            /\ \E io_ok \in BOOLEAN :
                  slots_file' = write_slots_file(slots_file, slot_map', io_ok)
       ELSE UNCHANGED <<nodes, slot_map, slots_file>>
    /\ members' = members \cup {addr}
    /\ UNCHANGED <<cache, lock, task, pre, written>>

NextSmallSlots == \E addr \in ClusterAddrs : AddNodeSmallSlots(addr)

SpecSmallSlots == InitSmallSlots /\ [][NextSmallSlots]_vars

(***************************************************************************)
(* Vocabulary of the properties                                            *)
(***************************************************************************)
range_start(e) == e.slot_range[1]

range_end(e) == e.slot_range[2]

range_count(e) == range_end(e) - range_start(e) + 1

RECURSIVE count_sum(_)
count_sum(sm) == IF sm = <<>> THEN 0 ELSE range_count(Head(sm)) + count_sum(Tail(sm))

counts(sm) == [i \in 1..Len(sm) |-> range_count(sm[i])]

\* The command of connection c has just run: this step is its Run.
Ran(c) == task[c].pc = "locked" /\ task'[c].pc = "respond"

Responding(c, op) == task[c].pc = "respond" /\ task[c].cmd.op = op

is_key_not_found(res) == ~res.ok /\ res.err.kind = "KeyNotFound"

(***************************************************************************)
(* C1: in every reachable state the ranges of slot_map, read in order,     *)
(* start at slot 0, each begin one past the end of the previous one, end   *)
(* at TOTAL_SLOTS - 1, are pairwise disjoint, and their counts sum to      *)
(* TOTAL_SLOTS: they partition [0, TOTAL_SLOTS) with no gap or overlap.    *)
(***************************************************************************)
C1_SlotPartition ==
    /\ Len(slot_map) >= 1
    /\ range_start(slot_map[1]) = 0
    /\ \A i \in 2..Len(slot_map) :
          range_start(slot_map[i]) = range_end(slot_map[i - 1]) + 1
    /\ range_end(slot_map[Len(slot_map)]) = TOTAL_SLOTS - 1
    /\ \A i, j \in 1..Len(slot_map) :
          i < j => \/ range_end(slot_map[i]) < range_start(slot_map[j])
                   \/ range_end(slot_map[j]) < range_start(slot_map[i])
    /\ count_sum(slot_map) = TOTAL_SLOTS

\* Several joins have rebalanced the slots over five nodes.
C1_Witness ==
    /\ Len(slot_map) = 5
    /\ \E c \in Conns : Responding(c, "CLUSTER_JOIN") /\ Len(pre[c].nodes) = 4

(***************************************************************************)
(* C2: with N nodes, base = TOTAL_SLOTS div N and extra = TOTAL_SLOTS mod  *)
(* N, the node at position i (from 0) of the node list owns base + 1 slots *)
(* if i < extra and base slots otherwise; three nodes own 5462, 5461 and   *)
(* 5461 slots in that order.                                               *)
(***************************************************************************)
C2_SlotCounts ==
    LET n     == Len(nodes)
        base  == TOTAL_SLOTS \div n
        extra == TOTAL_SLOTS % n
    IN  /\ n >= 1
        /\ Len(slot_map) = n
        /\ \A i \in 0..(n - 1) :
              /\ slot_map[i + 1].address = nodes[i + 1]
              /\ range_count(slot_map[i + 1]) = IF i < extra THEN base + 1 ELSE base
        /\ n = 3 => counts(slot_map) = <<5462, 5461, 5461>>

\* Three nodes, the first owning the extra slot.
C2_Witness ==
    /\ Len(nodes) = 3
    /\ slot_map[1].slot_range = <<0, 5461>>
    /\ slot_map[2].slot_range = <<5462, 10922>>
    /\ slot_map[3].slot_range = <<10923, 16383>>

(***************************************************************************)
(* C3: once SET(k, v) has returned Success, every GET(k) returns Data(v)   *)
(* with exactly the bytes v, whatever other commands run in between, until *)
(* the next SET of k or a DEL whose list contains k.  (written[k] is v     *)
(* from the successful SET on, until a DEL names k.)                       *)
(***************************************************************************)
C3_WriteThenRead ==
    [][\A c \in Conns :
          (Ran(c) /\ task[c].cmd.op = "GET" /\ written[task[c].cmd.key].set)
          => task'[c].res = Ok(Data(written[task[c].cmd.key].value))]_vars

\* GET(k1) returns the bytes set before, after a SET of the other key and a join.
C3_Witness ==
    \E c \in Conns :
        /\ Responding(c, "GET")
        /\ task[c].cmd.key = "k1"
        /\ written["k1"] = Written(<<255>>)
        /\ task[c].resp = Data(<<255>>)
        /\ written["missing"] = Written(<<0>>)
        /\ Len(nodes) = 3

(***************************************************************************)
(* C4: DEL(keys) returns Success if and only if at least one key of the    *)
(* list had an entry when the command ran, and the KeyNotFound error if    *)
(* and only if none had (the empty list included); a list mixing existing  *)
(* and missing keys is reported as Success.                                *)
(***************************************************************************)
C4_DelResult ==
    [][\A c \in Conns :
          (Ran(c) /\ task[c].cmd.op = "DEL")
          => LET keys == task[c].cmd.keys
                 had  == \E i \in 1..Len(keys) : keys[i] \in DOMAIN cache
             IN  /\ task'[c].res = Ok(Success) <=> had
                 /\ is_key_not_found(task'[c].res) <=> ~had]_vars

\* DEL of an existing and a missing key has returned Success.
C4_Witness ==
    \E c \in Conns :
        /\ Responding(c, "DEL")
        /\ task[c].cmd.keys = <<"k1", "missing">>
        /\ DOMAIN pre[c].cache = {"k1"}
        /\ task[c].res = Ok(Success)

(***************************************************************************)
(* C5: whenever a command is answered with an error, the cache mapping,    *)
(* the nodes and the slot_map are what they were before the command.       *)
(***************************************************************************)
C5_ErrorLeavesState ==
    [][\A c \in Conns :
          (task[c].pc # "respond" /\ task'[c].pc = "respond" /\ ~task'[c].res.ok)
          => /\ task'[c].resp.tag = "Error"
             /\ cache' = cache
             /\ nodes' = nodes
             /\ slot_map' = slot_map]_vars

\* A SET of a key that has an entry has failed in the compression.
C5_Witness ==
    \E c \in Conns :
        /\ Responding(c, "SET")
        /\ ~task[c].res.ok
        /\ task[c].cmd.key \in DOMAIN cache
        /\ cache = pre[c].cache

(***************************************************************************)
(* C6: GET(k) of a key with no entry fails with KeyNotFound carrying k,    *)
(* and GET(k) of a key with an entry never returns KeyNotFound.            *)
(***************************************************************************)
C6_GetMiss ==
    [][\A c \in Conns :
          (Ran(c) /\ task[c].cmd.op = "GET")
          => LET k == task[c].cmd.key
             IN  IF k \in DOMAIN cache
                 THEN ~is_key_not_found(task'[c].res)
                 ELSE task'[c].res = Err(KeyNotFound(k))]_vars

\* GET("missing") on an empty store has failed with KeyNotFound("missing").
C6_Witness ==
    \E c \in Conns :
        /\ Responding(c, "GET")
        /\ task[c].cmd.key = "missing"
        /\ DOMAIN cache = {}
        /\ task[c].res = Err(KeyNotFound("missing"))
        /\ task[c].resp = Error(<<"Key not found: ", "missing">>)

(***************************************************************************)
(* C7: EXISTS(k) never returns an error; it returns Exists(true) exactly   *)
(* when the cache holds an entry for k, that is when a SET of k succeeded  *)
(* and no later DEL named k, and Exists(false) otherwise; it leaves the    *)
(* cache and the topology unchanged.                                       *)
(***************************************************************************)
C7_Exists ==
    [][\A c \in Conns :
          (Ran(c) /\ task[c].cmd.op = "EXISTS")
          => LET k == task[c].cmd.key
             IN  /\ task'[c].res = Ok(Exists(k \in DOMAIN cache))
                 /\ (k \in DOMAIN cache) <=> written[k].set
                 /\ cache' = cache
                 /\ nodes' = nodes
                 /\ slot_map' = slot_map]_vars

\* EXISTS(k1) has answered false while the other key has an entry.
C7_Witness ==
    \E c \in Conns :
        /\ Responding(c, "EXISTS")
        /\ task[c].cmd.key = "k1"
        /\ task[c].res = Ok(Exists(FALSE))
        /\ DOMAIN cache = {"missing"}

(***************************************************************************)
(* C8: CLUSTER_JOIN is idempotent: a join of an address that is in the     *)
(* node list already (the own bind address included) leaves nodes and      *)
(* slot_map as they were; every join leaves its address in the list, so a  *)
(* second join of the same address changes nothing.                        *)
(***************************************************************************)
C8_JoinIdempotent ==
    [][\A c \in Conns :
          (Ran(c) /\ task[c].cmd.op = "CLUSTER_JOIN")
          => /\ contains(nodes', task[c].cmd.address)
             /\ contains(nodes, task[c].cmd.address)
                   => nodes' = nodes /\ slot_map' = slot_map]_vars

\* An address other than the own one has been joined a second time.
C8_Witness ==
    \E c \in Conns :
        /\ Responding(c, "CLUSTER_JOIN")
        /\ task[c].cmd.address # SelfAddr
        /\ contains(pre[c].nodes, task[c].cmd.address)
        /\ Len(pre[c].nodes) = 3
        /\ nodes = pre[c].nodes
        /\ slot_map = pre[c].slot_map

(***************************************************************************)
(* C9: the topology is a function of the membership set alone: whatever    *)
(* the order and the repetitions of the joins, nodes is the ascending      *)
(* list of the members and slot_map the allocation over that list.         *)
(***************************************************************************)
min_addr(S) == CHOOSE x \in S : \A y \in S : StrLeq(x, y)

RECURSIVE ascending_list(_)
ascending_list(S) ==
    IF S = {} THEN <<>>
    ELSE <<min_addr(S)>> \o ascending_list(S \ {min_addr(S)})

min_of(a, b) == IF a < b THEN a ELSE b

\* The i-th range (from 1) in closed form.
closed_form_slots(ns) ==
    LET n     == Len(ns)
        base  == TOTAL_SLOTS \div n
        extra == TOTAL_SLOTS % n
    IN  [i \in 1..n |->
            NodeSlots(ns[i], (i - 1) * base + min_of(i - 1, extra),
                      i * base + min_of(i, extra) - 1)]

C9_TopologyOfMembers ==
    /\ nodes = ascending_list(members)
    /\ slot_map = closed_form_slots(ascending_list(members))

\* The address joined last sorts before the three joined earlier.
C9_Witness ==
    \E c \in Conns :
        /\ Responding(c, "CLUSTER_JOIN")
        /\ Len(pre[c].nodes) = 3
        /\ ~contains(pre[c].nodes, task[c].cmd.address)
        /\ nodes[1] = task[c].cmd.address
        /\ Cardinality(members) = 4

(***************************************************************************)
(* C10: in every reachable state nodes is sorted ascending with no         *)
(* duplicate, slot_map has one entry per node, the address of its i-th     *)
(* entry is the i-th node, and slot_map is empty iff nodes is empty.       *)
(***************************************************************************)
C10_NodesSorted ==
    /\ \A i \in 1..(Len(nodes) - 1) : StrLess(nodes[i], nodes[i + 1])
    /\ \A i, j \in 1..Len(nodes) : i # j => nodes[i] # nodes[j]
    /\ Len(slot_map) = Len(nodes)
    /\ \A i \in 1..Len(slot_map) : slot_map[i].address = nodes[i]
    /\ (slot_map = <<>>) <=> (nodes = <<>>)

\* The address joined last went between two nodes of the list.
C10_Witness ==
    \E c \in Conns :
        /\ Responding(c, "CLUSTER_JOIN")
        /\ ~contains(pre[c].nodes, task[c].cmd.address)
        /\ Len(nodes) = 4
        /\ nodes[2] = task[c].cmd.address
        /\ slot_map[2].address = task[c].cmd.address

(***************************************************************************)
(* C11: in every reachable state of two concurrent connections, a task     *)
(* that holds the write guard (it runs SET, DEL or CLUSTER_JOIN) is the    *)
(* only task that holds a guard, and the lock records exactly the tasks    *)
(* inside process_command; tasks that run GET, EXISTS or CLUSTER_SLOTS can *)
(* hold the read guard together.                                           *)
(***************************************************************************)
holds_guard(c) == task[c].pc = "locked"

holds_write(c) == holds_guard(c) /\ takes_write(task[c].cmd)

holds_read(c) == holds_guard(c) /\ ~takes_write(task[c].cmd)

C11_LockDiscipline ==
    /\ \A c \in Clients :
          holds_write(c) => \A d \in Clients \ {c} : ~holds_guard(d)
    /\ \A c \in Clients : holds_write(c) <=> lock.writer = c
    /\ \A c \in Clients : holds_read(c) <=> c \in lock.readers
    /\ lock.writer \in Clients \cup {NoWriter}

\* Two tasks hold the read guard at the same time.
C11_Witness ==
    /\ lock.readers = Clients
    /\ \A c \in Clients : holds_read(c)
    /\ \E c, d \in Clients : c # d /\ task[c].cmd.op = "GET"
                                    /\ task[d].cmd.op = "CLUSTER_SLOTS"

(***************************************************************************)
(* C12: every command of two concurrent connections is atomic: when a task *)
(* returns from process_command, its result and the state it leaves are    *)
(* those of the whole command run alone on the committed state, the state  *)
(* left by the commands that returned before it.  The order of the returns *)
(* is a sequential execution with the same responses and the same final    *)
(* state; a GET or EXISTS never sees a DEL half done, and a GET that       *)
(* overlaps a SET returns the previous value or the new one.               *)
(***************************************************************************)
current ==
    [cache |-> cache, nodes |-> nodes, slot_map |-> slot_map,
     slots_file |-> slots_file]

\* The state left by the commands that have returned: a task inside a
\* writing arm took its snapshot of it with the guard.
committed ==
    IF \E d \in Clients : holds_write(d)
    THEN LET d == CHOOSE d \in Clients : holds_write(d)
         IN  [cache |-> pre[d].cache, nodes |-> pre[d].nodes,
              slot_map |-> pre[d].slot_map, slots_file |-> pre[d].slots_file]
    ELSE current

C12_Atomic ==
    [][\A c \in Clients :
          Ran(c)
          => \E zstd_ok \in BOOLEAN, io_ok \in BOOLEAN :
                LET r == process_command_on(committed, task[c].cmd, zstd_ok, io_ok)
                IN  /\ task'[c].res = r.res
                    /\ cache' = r.cache
                    /\ nodes' = r.nodes
                    /\ slot_map' = r.slot_map
                    /\ slots_file' = r.slots_file]_vars

\* A GET of k1 returned the previous value while the other task was waiting
\* for the write guard with a SET of another value for k1.
C12_Witness ==
    \E c, d \in Clients :
       /\ c # d
       /\ Responding(c, "GET")
       /\ task[c].res = Ok(Data(<<0>>))
       /\ task[d].pc = "wait"
       /\ task[d].cmd = [op |-> "SET", key |-> "k1", value |-> <<255>>]

(***************************************************************************)
(* C13: the cache and the topology do not interfere.  The result of SET,   *)
(* GET, DEL and EXISTS is the one the command has on the same cache under  *)
(* any other topology (no node list, or a single node of any address), and *)
(* these commands leave nodes and slot_map unchanged; CLUSTER_JOIN and     *)
(* CLUSTER_SLOTS leave the cache unchanged.                                *)
(***************************************************************************)
cache_command(cmd) == cmd.op \in {"SET", "GET", "DEL", "EXISTS"}

cluster_command(cmd) == cmd.op \in {"CLUSTER_JOIN", "CLUSTER_SLOTS"}

Topologies ==
    {[nodes |-> <<>>, slot_map |-> <<>>]}
    \cup {ClusterState_new(a) : a \in Addrs}

C13_HalvesIndependent ==
    [][\A c \in Conns :
          Ran(c)
          => LET cmd == task[c].cmd
             IN  /\ cache_command(cmd)
                    => /\ nodes' = nodes
                       /\ slot_map' = slot_map
                       /\ \E zstd_ok \in BOOLEAN :
                             \A t \in Topologies :
                                task'[c].res =
                                   process_command_on(
                                      [cache |-> cache, nodes |-> t.nodes,
                                       slot_map |-> t.slot_map,
                                       slots_file |-> NoFile],
                                      cmd, zstd_ok, TRUE).res
                 /\ cluster_command(cmd) => cache' = cache]_vars

\* A GET was served from the cache of a node that shares the slots with two
\* other nodes.
C13_Witness ==
    \E c \in Conns :
       /\ Responding(c, "GET")
       /\ task[c].res.ok
       /\ Len(nodes) = 3
       /\ pre[c].slot_map = slot_map

(***************************************************************************)
(* C14: a CLUSTER_JOIN of an address that is not in the node list          *)
(* recomputes the whole slot_map over the new list and then writes the     *)
(* manifest.  Whether the write succeeds or fails, the command returns     *)
(* Success and the new node is in the topology in memory; when the write   *)
(* succeeds, the manifest read back is the slot_map the state has when the *)
(* guard is released.                                                      *)
(***************************************************************************)
RECURSIVE from_tokens(_)
from_tokens(t) ==
    IF t = <<>> THEN <<>>
    ELSE <<NodeSlots(t[3], t[5], t[6])>> \o from_tokens(SubSeq(t, 8, Len(t)))

\* The slot_map a manifest text stands for.
from_str(text) == from_tokens(SubSeq(text, 2, Len(text) - 1))

joins_new_node(c) ==
    /\ task[c].cmd.op = "CLUSTER_JOIN"
    /\ ~contains(nodes, task[c].cmd.address)

C14_ManifestFollowsJoin ==
    [][\A c \in Conns :
          (Ran(c) /\ joins_new_node(c))
          => LET addr == task[c].cmd.address
                 out(io_ok) == CLUSTER_JOIN(nodes, slot_map, slots_file, addr, io_ok)
             IN  /\ \A io_ok \in BOOLEAN :
                       /\ out(io_ok).res = Ok(Success)
                       /\ contains(out(io_ok).nodes, addr)
                       /\ out(io_ok).slot_map = closed_form_slots(out(io_ok).nodes)
                       /\ io_ok => /\ out(io_ok).slots_file # <<>>
                                   /\ from_str(out(io_ok).slots_file)
                                         = out(io_ok).slot_map
                 /\ \E io_ok \in BOOLEAN :
                       /\ task'[c].res = out(io_ok).res
                       /\ nodes' = out(io_ok).nodes
                       /\ slot_map' = out(io_ok).slot_map
                       /\ slots_file' = out(io_ok).slots_file]_vars

\* A join of a third node has returned Success and the node is in the list,
\* but the manifest is still the one an earlier join wrote for two nodes:
\* one write has succeeded and this one has failed.
C14_Witness ==
    \E c \in Conns :
       /\ Responding(c, "CLUSTER_JOIN")
       /\ task[c].res = Ok(Success)
       /\ ~contains(pre[c].nodes, task[c].cmd.address)
       /\ contains(nodes, task[c].cmd.address)
       /\ Len(nodes) = 3
       /\ slots_file = get_slots_json(pre[c].slot_map)
       /\ slots_file # get_slots_json(slot_map)

(***************************************************************************)
(* C15: a command that fails is answered with one Error response and does  *)
(* not end the connection.  A failed result is mapped to Error with the    *)
(* text of the error and bytes that do not parse to Error "Invalid         *)
(* command"; the only step after an Error response is its write, which     *)
(* can succeed and take the task back to reading, where it can take any    *)
(* next command; a task ends only from reading (the peer closed or the     *)
(* read failed) or from a write that failed, never inside process_command. *)
(***************************************************************************)
error_response(c) ==
    task[c].pc = "respond" /\ task[c].resp.tag = "Error"

C15_ErrorSteps ==
    \A c \in Conns :
       /\ (Ran(c) /\ ~task'[c].res.ok)
             => task'[c].resp = Error(to_string(task'[c].res.err))
       /\ (Ran(c) /\ task'[c].res.ok) => task'[c].resp.tag # "Error"
       /\ (task[c].pc = "read" /\ task'[c].pc = "respond")
             => task'[c].resp = invalid_command("serde")
       /\ (error_response(c) /\ task'[c] # task[c])
             => /\ task'[c].pc \in {"read", "closed"}
                /\ UNCHANGED <<cache, nodes, slot_map, slots_file, lock>>
       /\ (task[c].pc # "closed" /\ task'[c].pc = "closed")
             => task[c].pc \in {"read", "respond"}

C15_ErrorKeepsConnection ==
    /\ [][C15_ErrorSteps]_vars
    /\ [](\A c \in Conns :
             error_response(c) => ENABLED (Respond(c) /\ task'[c].pc = "read"))
    /\ [](\A c \in Conns :
             task[c].pc = "read"
             => \A cmd \in CacheCommands : ENABLED Receive(c, {cmd}))

\* The Error response to a DEL that found none of its keys is about to be
\* written, with the connection open and a key in the cache.
C15_Witness ==
    \E c \in Conns :
       /\ error_response(c)
       /\ task[c].cmd.op = "DEL"
       /\ is_key_not_found(task[c].res)
       /\ "k1" \in DOMAIN cache

(***************************************************************************)
(* C16: under fair scheduling every command that waits for its guard       *)
(* returns from process_command with a result, a successful one or an      *)
(* error, and without its guard.  A waiting task is blocked only while     *)
(* another task holds a guard, so no state is a deadlock of tasks that     *)
(* wait for a free lock, and a task outside process_command holds no       *)
(* guard.                                                                  *)
(***************************************************************************)
guard_free(c) == lock.writer # c /\ c \notin lock.readers

entry_of(c, k) ==
    IF k \in DOMAIN c THEN [set |-> TRUE, entry |-> c[k]] ELSE [set |-> FALSE]

C17_TouchOnlyNamed ==
    [][\A c \in Conns :
          Ran(c)
          => LET cmd == task[c].cmd
             IN  /\ cmd.op = "SET"
                    => /\ \A k \in Keys \ {cmd.key} :
                             entry_of(cache', k) = entry_of(cache, k)
                       /\ task'[c].res.ok
                             => /\ DOMAIN cache' = DOMAIN cache \cup {cmd.key}
                                /\ decompress_data(cache'[cmd.key].compressed_data)
                                      = Ok(cmd.value)
                 /\ cmd.op = "DEL"
                    => /\ \A k \in Keys :
                             ~contains(cmd.keys, k)
                             => entry_of(cache', k) = entry_of(cache, k)
                       /\ task'[c].res.ok
                             => \A i \in 1..Len(cmd.keys) :
                                   cmd.keys[i] \notin DOMAIN cache']_vars

\* A DEL of a list that names two keys, both of them in the cache, has
\* succeeded.
C17_Witness ==
    \E c \in Conns :
       /\ Responding(c, "DEL")
       /\ task[c].res.ok
       /\ task[c].cmd.keys = <<"k1", "missing">>
       /\ DOMAIN pre[c].cache = {"k1", "missing"}
       /\ cache = <<>>

(***************************************************************************)
(* C18: a CLUSTER_SLOTS response renders a complete slot map, whatever the *)
(* CLUSTER_JOIN commands of the other connection are doing.  The text read *)
(* back is a partition of [0, TOTAL_SLOTS) and is the allocation over the  *)
(* ascending list of the members, the nodes whose joins have returned; it  *)
(* is never the slot_map of a rebalance under way (cleared, partly         *)
(* rebuilt, or still the old one under the new node list).                 *)
(***************************************************************************)
is_partition(sm) ==
    /\ Len(sm) >= 1
    /\ range_start(sm[1]) = 0
    /\ \A i \in 1..Len(sm) : range_start(sm[i]) <= range_end(sm[i])
    /\ \A i \in 1..(Len(sm) - 1) : range_start(sm[i + 1]) = range_end(sm[i]) + 1
    /\ range_end(sm[Len(sm)]) = TOTAL_SLOTS - 1

addresses(sm) == [i \in 1..Len(sm) |-> sm[i].address]

C18_SlotsComplete ==
    [][\A c \in Clients :
          (Ran(c) /\ task[c].cmd.op = "CLUSTER_SLOTS")
          => /\ task'[c].res.ok
             /\ task'[c].res.val.tag = "Slots"
             /\ LET sm == from_str(task'[c].res.val.text)
                IN  /\ is_partition(sm)
                    /\ addresses(sm) = ascending_list(members)
                    /\ sm = closed_form_slots(ascending_list(members))]_vars

\* A CLUSTER_SLOTS response with the complete map of two nodes is about to
\* be written while the other task is inside the rebalance for a third
\* node, with one range of three rebuilt.
C18_Witness ==
    \E c, d \in Clients :
       /\ c # d
       /\ Responding(c, "CLUSTER_SLOTS")
       /\ Len(from_str(task[c].res.val.text)) = 2
       /\ is_partition(from_str(task[c].res.val.text))
       /\ holds_write(d)
       /\ task[d].cmd.op = "CLUSTER_JOIN"
       /\ Len(nodes) = 3
       /\ Len(slot_map) = 1

(***************************************************************************)
(* C19: every slot_map entry is a non-empty inclusive range inside the     *)
(* slot space, 0 <= start <= end <= slots - 1, as long as the node list is *)
(* no longer than the slot space.  In a longer list the nodes past the     *)
(* slot space get the count 0, which the code writes as the range          *)
(* (slots, slots - 1): its start is past its end and outside the slot      *)
(* space.  Checked over a slot space of SmallSlots slots, and for the same *)
(* node lists over TOTAL_SLOTS.                                            *)
(***************************************************************************)
well_formed(e, total) ==
    /\ 0 <= range_start(e)
    /\ range_start(e) <= range_end(e)
    /\ range_end(e) <= total - 1

\* The claim as it was made: every entry is well formed, for any number of
\* nodes.
C19_EveryRangeWellFormed ==
    \A i \in 1..Len(slot_map) : well_formed(slot_map[i], SmallSlots)

C19_RangesUpToSlotCount ==
    /\ Len(slot_map) = Len(nodes)
    /\ \A i \in 1..Len(slot_map) :
          IF i <= SmallSlots
          THEN well_formed(slot_map[i], SmallSlots)
          ELSE slot_map[i].slot_range = <<SmallSlots, SmallSlots - 1>>
    /\ LET sm == allocate(nodes, TOTAL_SLOTS)
       IN  /\ Len(sm) = Len(nodes)
           /\ \A i \in 1..Len(sm) : well_formed(sm[i], TOTAL_SLOTS)

\* One node more than there are slots: the last node has the empty range.
C19_Witness ==
    /\ Len(nodes) = SmallSlots + 1
    /\ Len(slot_map) = SmallSlots + 1
    /\ \A i \in 1..SmallSlots : slot_map[i].slot_range = <<i - 1, i - 1>>
    /\ slot_map[SmallSlots + 1].slot_range = <<SmallSlots, SmallSlots - 1>>

(***************************************************************************)
(* C20: the membership only grows.  The topology starts as the one node of *)
(* the own bind address with the single range (0, TOTAL_SLOTS - 1); no     *)
(* step takes a node out of the node list, so the node set of a state      *)
(* includes the node set of every earlier state; the own address stays a   *)
(* member, and nodes and slot_map are never empty.                         *)
(***************************************************************************)
node_set(ns) == {ns[i] : i \in 1..Len(ns)}

C20_MembershipGrows ==
    /\ nodes = <<SelfAddr>>
    /\ slot_map = <<NodeSlots(SelfAddr, 0, TOTAL_SLOTS - 1)>>
    /\ [][node_set(nodes) \subseteq node_set(nodes')]_vars
    /\ [](/\ SelfAddr \in node_set(nodes)
          /\ nodes # <<>>
          /\ slot_map # <<>>
          /\ node_set(addresses(slot_map)) = node_set(nodes))

\* A join has added a fourth node to three earlier ones, the own address
\* among them.
C20_Witness ==
    \E c \in Conns :
       /\ Responding(c, "CLUSTER_JOIN")
       /\ Len(pre[c].nodes) = 3
       /\ Len(nodes) = 4
       /\ node_set(pre[c].nodes) \subseteq node_set(nodes)
       /\ SelfAddr \in node_set(pre[c].nodes)
       /\ task[c].cmd.address \notin node_set(pre[c].nodes)
====
